---- MODULE Spec2Model ----
(***************************************************************************)
(* Website Growth Analyzer: the POST /api/analyze handler, the Firecrawl   *)
(* and Anthropic services it calls, and the PostgreSQL lead store.         *)
(*                                                                         *)
(* Text is modelled as a sequence of characters (one-character strings;    *)
(* a few named tokens stand for single unprintable code units).            *)
(***************************************************************************)
EXTENDS Integers, Sequences, FiniteSets, TLC

(***************************************************************************)
(* Characters and character classes of the regular expressions            *)
(***************************************************************************)
Lower ==
  {"a","b","c","d","e","f","g","h","i","j","k","l","m",
   "n","o","p","q","r","s","t","u","v","w","x","y","z"}

Upper ==
  {"A","B","C","D","E","F","G","H","I","J","K","L","M",
   "N","O","P","Q","R","S","T","U","V","W","X","Y","Z"}

Digit ==
  {"0","1","2","3","4","5","6","7","8","9"}

Alnum ==
  Lower \cup Upper \cup Digit

\* \w of a JavaScript regular expression
WordChar ==
  Alnum \cup {"_"}

\* [-a-zA-Z0-9@:%._\+~#=]
HostClass ==
  Alnum \cup {"-","@",":","%",".","_","+","~","#","="}

\* [a-zA-Z0-9()]
TldClass ==
  Alnum \cup {"(",")"}

\* [-a-zA-Z0-9()@:%_\+.~#?&//=]
PathClass ==
  Alnum \cup {"-","(",")","@",":","%","_","+",".","~","#","?","&","/","="}

\* \s of a JavaScript regular expression (the members the model uses)
Whitespace ==
  {" ", "\t", "\n"}

\* [\u0000-\u001F\u007F-\u009F]; "U+0000", "U+0007", "U+0085" each stand for
\* the single code unit of that number
ControlChar ==
  {"\t", "\n", "U+0000", "U+0007", "U+0085"}

(***************************************************************************)
(* Generic text helpers                                                    *)
(***************************************************************************)
\* s.startsWith(p) at offset k (0-based)
HasAt(s, k, p) ==
  /\ k + Len(p) <= Len(s)
  /\ \A i \in 1..Len(p) : s[k + i] = p[i]

\* s.substring(k) (0-based start)
From(s, k) ==
  IF k >= Len(s) THEN << >> ELSE SubSeq(s, k + 1, Len(s))

\* s.substring(0, n)
Substring0(s, n) ==
  IF Len(s) <= n THEN s ELSE SubSeq(s, 1, n)

\* the smallest 0-based index at which p occurs in s, or -1 (s.indexOf(p))
IndexOf(s, p) ==
  LET hits == {k \in 0..Len(s) : HasAt(s, k, p)}
  IN  IF hits = {} THEN -1 ELSE CHOOSE k \in hits : \A j \in hits : k <= j

\* s.replace(p, '') with a string pattern: only the first occurrence goes
RemoveFirst(s, p) ==
  LET k == IndexOf(s, p)
  IN  IF k < 0 THEN s ELSE Substring0(s, k) \o From(s, k + Len(p))

\* the 0-based index of the first character of s in the set D, or Len(s)
FirstOf(s, D) ==
  LET hits == {k \in 0..Len(s) : k = Len(s) \/ s[k + 1] \in D}
  IN  CHOOSE k \in hits : \A j \in hits : k <= j

(***************************************************************************)
(* URLs                                                                    *)
(***************************************************************************)
Http ==
  <<"h","t","t","p",":","/","/">>

Https ==
  <<"h","t","t","p","s",":","/","/">>

Ftp ==
  <<"f","t","p",":","/","/">>

Www ==
  <<"w","w","w",".">>

UrlA ==
  Https \o <<"a",".","c","o">>

UrlB ==
  Http \o Www \o <<"b",".","i","o","/","p">>

UrlFtp ==
  Ftp \o <<"a",".","c","o">>

UrlNoScheme ==
  <<"a",".","c","o">>

UrlNoTld ==
  Http \o <<"a">>

UrlSpace ==
  UrlA \o <<" ","x">>

UrlLongTld ==
  Https \o <<"a",".","c","o","m","p","a","n","y">>

\* values of req.body.url: absent, the empty string, or a string
NoUrl ==
  [present |-> FALSE, text |-> << >>]

Str(s) ==
  [present |-> TRUE, text |-> s]

ValidUrls ==
  {UrlA, UrlB}

InvalidUrls ==
  {UrlFtp, UrlNoScheme, UrlNoTld, UrlSpace, UrlLongTld}

BodyUrls ==
  {NoUrl, Str(<< >>)} \cup {Str(u) : u \in ValidUrls \cup InvalidUrls}

\* !url
UrlFalsy(b) ==
  ~b.present \/ b.text = << >>

\* the position after the tld is a word boundary (\b): exactly one of the
\* characters before and after position k (0-based) is a word character
WordBoundary(s, k) ==
  LET before == k >= 1 /\ s[k] \in WordChar
      after  == k < Len(s) /\ s[k + 1] \in WordChar
  IN  before # after

\* URL_REGEX.test(url):
\* ^https?:\/\/(www\.)?[host]{1,256}\.[tld]{1,6}\b([path]*)$
URL_REGEX_test(s) ==
  \E k \in {Len(Http), Len(Https)} :
    /\ \/ k = Len(Http) /\ HasAt(s, 0, Http)
       \/ k = Len(Https) /\ HasAt(s, 0, Https)
    /\ \E w \in {0, Len(Www)} :
         /\ w = 0 \/ HasAt(s, k, Www)
         /\ \E n \in 1..256 : \E m \in 1..6 :
              LET h == k + w
                  e == h + n + 1 + m
              IN  /\ e <= Len(s)
                  /\ \A i \in (h + 1)..(h + n) : s[i] \in HostClass
                  /\ s[h + n + 1] = "."
                  /\ \A i \in (h + n + 2)..e : s[i] \in TldClass
                  /\ WordBoundary(s, e)
                  /\ \A i \in (e + 1)..Len(s) : s[i] \in PathClass

\* new URL(url) succeeds: a scheme followed by "//" and a non-empty host
\* without forbidden characters
UrlParses(s) ==
  \E p \in {Http, Https, Ftp} :
    /\ HasAt(s, 0, p)
    /\ LET rest == From(s, Len(p))
           host == Substring0(rest, FirstOf(rest, {"/", "?", "#", ":"}))
       IN  /\ host # << >>
           /\ \A i \in 1..Len(host) : host[i] \notin Whitespace \cup {"<", ">", "^", "|"}

\* new URL(url).hostname
Hostname(s) ==
  LET p    == CHOOSE q \in {Http, Https, Ftp} : HasAt(s, 0, q)
      rest == From(s, Len(p))
  IN  Substring0(rest, FirstOf(rest, {"/", "?", "#", ":"}))

\* url.replace(/^https?:\/\/(www\.)?/, '')
StripSchemeWww(s) ==
  LET k == IF HasAt(s, 0, Https) THEN Len(Https)
           ELSE IF HasAt(s, 0, Http) THEN Len(Http) ELSE 0
      w == IF k > 0 /\ HasAt(s, k, Www) THEN Len(Www) ELSE 0
  IN  From(s, k + w)

\* DatabaseService.extractDomain
extractDomain(url) ==
  IF UrlParses(url)
  THEN RemoveFirst(Hostname(url), Www)
  ELSE LET t == StripSchemeWww(url) IN Substring0(t, FirstOf(t, {"/"}))

(***************************************************************************)
(* Error messages.  A message is the sequence of the text fragments it is  *)
(* built from; Marks gives the substrings a fragment contains among those  *)
(* the handlers test with String.includes.                                 *)
(***************************************************************************)
Marks(frag) ==
  CASE frag = "Invalid Firecrawl API key. Please check your FIRECRAWL_API_KEY environment variable."
         -> {"API key"}
    [] frag = "Firecrawl rate limit exceeded. Please try again later."
         -> {"rate limit"}
    [] frag = "Anthropic API key not configured"
         -> {"API key"}
    [] frag = "Claude API rate limit exceeded. Please try again in a few minutes."
         -> {"rate limit"}
    [] frag = "Invalid Anthropic API key. Please check your ANTHROPIC_API_KEY environment variable."
         -> {"API key"}
    [] frag = "Claude AI service is temporarily overloaded. Please try again in a moment."
         -> {"overloaded"}
    [] frag = "fetch failed"
         -> {"fetch"}
    [] frag = "Failed to fetch the page"
         -> {"fetch"}
    [] frag = "Request timeout while scraping"
         -> {"timeout"}
    [] frag = "You hit the rate limit of your plan"
         -> {"rate limit"}
    [] frag = "429 rate_limit_error: Number of request tokens has exceeded your rate limit"
         -> {"rate_limit", "rate limit"}
    [] frag = "401 authentication_error: invalid x-api-key"
         -> {"authentication"}
    [] frag = "529 overloaded_error: Overloaded"
         -> {"overloaded"}
    [] OTHER -> {}

\* message.includes(mark)
Includes(msg, mark) ==
  \E i \in 1..Len(msg) : mark \in Marks(msg[i])

(***************************************************************************)
(* Firecrawl service                                                       *)
(***************************************************************************)
MinContentLength ==
  100

MaxContentLength ==
  50000

Rep(c, n) ==
  SubSeq([i \in 1..n |-> c], 1, n)

Unmarked(m) ==
  ~m.drop

\* .replace(/\s+/g, ' '): every run of whitespace becomes one space
CollapseWhitespace(s) ==
  LET marked == [i \in 1..Len(s) |->
                   [c    |-> IF s[i] \in Whitespace THEN " " ELSE s[i],
                    drop |-> s[i] \in Whitespace /\ i > 1 /\ s[i - 1] \in Whitespace]]
      kept   == SelectSeq(marked, Unmarked)
  IN  [i \in 1..Len(kept) |-> kept[i].c]

IsPrintable(c) ==
  c \notin ControlChar

\* .replace(/[\u0000-\u001F\u007F-\u009F]/g, '')
StripControl(s) ==
  SelectSeq(s, IsPrintable)

\* .trim()
Trim(s) ==
  IF \A i \in 1..Len(s) : s[i] \in Whitespace THEN << >>
  ELSE SubSeq(s, CHOOSE i \in 1..Len(s) :
                   s[i] \notin Whitespace /\ \A j \in 1..(i - 1) : s[j] \in Whitespace,
                 CHOOSE i \in 1..Len(s) :
                   s[i] \notin Whitespace /\ \A j \in (i + 1)..Len(s) : s[j] \in Whitespace)

\* cleanContent without the removal of the control characters
cleanContentKeepsControl(content) ==
  LET Kept(c) == TRUE
  IN  IF content = << >> THEN << >>
      ELSE Substring0(Trim(SelectSeq(CollapseWhitespace(content), Kept)), MaxContentLength)

\* FirecrawlService.cleanContent
cleanContent(content) ==
  IF content = << >> THEN << >>
  ELSE Substring0(Trim(StripControl(CollapseWhitespace(content))), MaxContentLength)

\* html.replace(/<[^>]*>/g, ' '): every match becomes one space.  Position i
\* lies in a match when a "<" stands at or before it with no ">" in between
\* and a ">" stands at or after it; the match's closing ">" yields the space
StripTags(s) ==
  LET lt == {j \in 1..Len(s) : s[j] = "<"}
      gt == {k \in 1..Len(s) : s[k] = ">"}
      inTag(i) == /\ \E k \in gt : k >= i
                  /\ \E j \in lt : j <= i /\ \A l \in gt : ~(j < l /\ l < i)
      marked == [i \in 1..Len(s) |->
                   [c    |-> IF inTag(i) THEN " " ELSE s[i],
                    drop |-> inTag(i) /\ s[i] # ">"]]
      kept   == SelectSeq(marked, Unmarked)
  IN  [i \in 1..Len(kept) |-> kept[i].c]

\* extractContent with the html field looked at before the text field
extractContentHtmlFirst(crawlData) ==
  cleanContent(
    IF crawlData.markdown # << >> THEN crawlData.markdown
    ELSE IF crawlData.content # << >> THEN crawlData.content
    ELSE IF crawlData.html # << >> THEN Trim(CollapseWhitespace(StripTags(crawlData.html)))
    ELSE IF crawlData.text # << >> THEN crawlData.text
    ELSE << >>)

\* FirecrawlService.extractContent; an absent field is the empty string
extractContent(crawlData) ==
  cleanContent(
    IF crawlData.markdown # << >> THEN crawlData.markdown
    ELSE IF crawlData.content # << >> THEN crawlData.content
    ELSE IF crawlData.text # << >> THEN crawlData.text
    ELSE IF crawlData.html # << >> THEN Trim(CollapseWhitespace(StripTags(crawlData.html)))
    ELSE << >>)

CrawlResult(md, html) ==
  [markdown |-> md, content |-> << >>, text |-> << >>, html |-> html]

\* what the crawling service can answer to POST /scrape
\*   kind "network": fetch() rejects; "http": a non-2xx status with an
\*   optional error text in the body; "ok": a 2xx body {success, data}
CrawlResponses ==
  { [kind |-> "network", status |-> 0, error |-> "", success |-> FALSE,
     hasData |-> FALSE, data |-> CrawlResult(<< >>, << >>)] }
  \cup
  { [kind |-> "http", status |-> st, error |-> e, success |-> FALSE,
     hasData |-> FALSE, data |-> CrawlResult(<< >>, << >>)] :
      st \in {400, 401, 429, 500},
      e \in {"", "Failed to fetch the page", "Request timeout while scraping",
             "You hit the rate limit of your plan"} }
  \cup
  { [kind |-> "ok", status |-> 200, error |-> "", success |-> FALSE,
     hasData |-> FALSE, data |-> CrawlResult(<< >>, << >>)] }
  \cup
  { [kind |-> "ok", status |-> 200, error |-> "", success |-> TRUE,
     hasData |-> TRUE, data |-> d] :
      d \in { CrawlResult(Rep("a", MinContentLength), << >>),
              CrawlResult(Rep("a", MinContentLength - 1) \o <<" ">>, << >>),
              CrawlResult(<< >>, <<"<","p",">">> \o Rep("b", MinContentLength + 1)),
              CrawlResult(<< >>, << >>) } }

Thrown(msg) ==
  [ok |-> FALSE, message |-> msg, content |-> << >>, contentLength |-> 0]

\* the object crawlWebsite returns: content and metadata.contentLength
Returned(content) ==
  [ok |-> TRUE, message |-> << >>, content |-> content, contentLength |-> Len(content)]

\* the catch block of crawlWebsite: an error whose message contains "fetch"
\* is replaced by the connection error, any other is re-thrown unchanged
crawlCatch(msg) ==
  IF Includes(msg, "fetch")
  THEN Thrown(<<"Unable to connect to Firecrawl service. Please check your internet connection.">>)
  ELSE Thrown(msg)

\* crawlWebsite with the length test off by one (<= instead of <)
crawlWebsiteOffByOne(resp) ==
  IF resp.kind # "ok" \/ ~resp.success \/ ~resp.hasData
  THEN crawlCatch(<<"Invalid response from Firecrawl API">>)
  ELSE LET content == extractContent(resp.data)
       IN  IF content = << >> \/ Len(content) <= MinContentLength
           THEN crawlCatch(<<"Insufficient content extracted from website. The page might be empty or have access restrictions.">>)
           ELSE Returned(content)

\* FirecrawlService.crawlWebsite, given the crawling service's answer
crawlWebsite(resp) ==
  IF resp.kind = "network" THEN crawlCatch(<<"fetch failed">>)
  ELSE IF resp.kind = "http"
  THEN IF resp.status = 401
       THEN crawlCatch(<<"Invalid Firecrawl API key. Please check your FIRECRAWL_API_KEY environment variable.">>)
       ELSE IF resp.status = 429
       THEN crawlCatch(<<"Firecrawl rate limit exceeded. Please try again later.">>)
       ELSE IF resp.status = 400
       THEN crawlCatch(<<"Invalid URL or crawl request: ",
                         IF resp.error # "" THEN resp.error ELSE "Bad request">>)
       ELSE crawlCatch(<<"Firecrawl API error: ", "<status>", " - ",
                         IF resp.error # "" THEN resp.error ELSE "Unknown error">>)
  ELSE IF ~resp.success \/ ~resp.hasData
  THEN crawlCatch(<<"Invalid response from Firecrawl API">>)
  ELSE LET content == extractContent(resp.data)
       IN  IF content = << >> \/ Len(content) < MinContentLength
           THEN crawlCatch(<<"Insufficient content extracted from website. The page might be empty or have access restrictions.">>)
           ELSE Returned(content)

(***************************************************************************)
(* Anthropic service: the reply text and its parsing                       *)
(*                                                                         *)
(* A JavaScript number is [nan, n]; a JSON value is a record with its type *)
(* tag t.  A reply is a sequence of items: runs of prose ("text"), runs of *)
(* whitespace ("space"), code fences, lone braces, a complete JSON object  *)
(* ("object", with its members in obj) and an object cut off before its    *)
(* closing brace but after an inner one ("cut").                           *)
(***************************************************************************)
Num(n) ==
  [nan |-> FALSE, n |-> n]

NaN ==
  [nan |-> TRUE, n |-> 0]

JAbsent ==
  [t |-> "absent", n |-> 0, s |-> ""]

JNull ==
  [t |-> "null", n |-> 0, s |-> ""]

JNum(n) ==
  [t |-> "num", n |-> n, s |-> ""]

JStr(s) ==
  [t |-> "str", n |-> 0, s |-> s]

NoList ==
  [t |-> "absent", a |-> << >>]

List(a) ==
  [t |-> "arr", a |-> a]

\* JavaScript truthiness of a JSON member
Truthy(j) ==
  CASE j.t = "num" -> j.n # 0
    [] j.t = "str" -> j.s # ""
    [] j.t = "arr" -> TRUE
    [] OTHER -> FALSE

\* ToNumber, as Math.max and Math.min apply it to their arguments
ToNumber(j) ==
  CASE j.t = "num" -> Num(j.n)
    [] j.t = "str" -> IF j.s = "85" THEN Num(85)
                      ELSE IF j.s = "" THEN Num(0) ELSE NaN
    [] j.t = "null" -> Num(0)
    [] OTHER -> NaN

MathMax(a, b) ==
  IF a.nan \/ b.nan THEN NaN ELSE IF a.n >= b.n THEN a ELSE b

MathMin(a, b) ==
  IF a.nan \/ b.nan THEN NaN ELSE IF a.n <= b.n THEN a ELSE b

Category(name, score) ==
  [name |-> name, score |-> score, feedback |-> "feedback"]

Recommendation(priority, action) ==
  [priority |-> priority, action |-> action, impact |-> "impact", effort |-> "Low"]

EmptyObject ==
  [score |-> JAbsent, summary |-> JAbsent,
   categories |-> NoList, recommendations |-> NoList]

Item(k) ==
  [k |-> k, obj |-> EmptyObject]

Object(o) ==
  [k |-> "object", obj |-> o]

TwoCategories ==
  List(<<Category("First Impression & Value Proposition", 15),
         Category("Conversion Optimization", 12)>>)

TwoRecommendations ==
  List(<<Recommendation("High", "Add a clear call to action"),
         Recommendation("Low", "Add testimonials")>>)

Analysis(score) ==
  [score |-> score, summary |-> JStr("A solid site."),
   categories |-> TwoCategories, recommendations |-> TwoRecommendations]

\* the scores a reply may carry
ReplyScores ==
  {JNum(72), JNum(100), JNum(150), JNum(-5), JNum(0), JAbsent, JNull,
   JStr("85"), JStr("72/100")}

ModelReplies ==
  { <<Object(Analysis(sc))>> : sc \in ReplyScores }
  \cup
  { <<Item("fence_json"), Object(Analysis(JNum(72))), Item("space"), Item("fence")>>,
    <<Item("space"), Item("text"), Object(Analysis(JNum(150))), Item("text")>>,
    <<Object(Analysis(JNum(72))), Item("text"), Item("lbrace"), Item("text"), Item("rbrace")>>,
    <<Object([Analysis(JNum(72)) EXCEPT !.categories = NoList])>>,
    <<Object([Analysis(JNum(72)) EXCEPT !.recommendations = NoList])>>,
    <<Object([Analysis(JNum(64)) EXCEPT !.categories = List(<< >>),
                                        !.recommendations = List(<< >>),
                                        !.summary = JAbsent])>>,
    <<Item("lbrace"), Item("rbrace")>>,
    <<Item("rbrace"), Item("text"), Item("lbrace")>>,
    <<Item("cut")>>,
    <<Item("text")>>,
    << >> }

NotFence(it) ==
  it.k \notin {"fence_json", "fence"}

\* .trim(), then the two .replace() calls that delete the code fences
StripFences(reply) ==
  LET keep == {i \in 1..Len(reply) : reply[i].k # "space"}
      trimmed == IF keep = {} THEN << >>
                 ELSE SubSeq(reply, CHOOSE i \in keep : \A j \in keep : i <= j,
                                    CHOOSE i \in keep : \A j \in keep : i >= j)
  IN  SelectSeq(trimmed, NotFence)

\* cleanResponse.match(/\{[\s\S]*\}/): from the first "{" that has a "}" after
\* it to the last "}" of the text; << >> when there is no match
JsonMatch(items) ==
  LET opens  == {i \in 1..Len(items) : items[i].k \in {"lbrace", "object", "cut"}}
      closes == {j \in 1..Len(items) : items[j].k \in {"rbrace", "object", "cut"}}
      starts == {i \in opens : \E j \in closes :
                    j > i \/ (j = i /\ items[i].k \in {"object", "cut"})}
  IN  IF starts = {} THEN << >>
      ELSE SubSeq(items, CHOOSE i \in starts : \A j \in starts : i <= j,
                         CHOOSE j \in closes : \A l \in closes : j >= l)

NotSpace(it) ==
  it.k # "space"

\* JSON.parse(jsonMatch[0]) succeeds: the span is one complete object, or
\* the two braces of an empty object
JsonParses(span) ==
  \/ Len(span) = 1 /\ span[1].k = "object"
  \/ LET s == SelectSeq(span, NotSpace)
     IN  Len(s) = 2 /\ s[1].k = "lbrace" /\ s[2].k = "rbrace"

\* the value JSON.parse returns for a span that parses
JsonParse(span) ==
  IF span[1].k = "object" THEN span[1].obj ELSE EmptyObject

FallbackResult ==
  [score |-> Num(50),
   summary |-> "Analysis completed but response parsing failed. Please try again.",
   feedback |-> "The website analysis encountered a technical issue. The website appears to have basic functionality but we recommend running the analysis again for detailed insights.",
   categories |-> List(<<[name |-> "Analysis Error", score |-> 50,
                          feedback |-> "Technical issue prevented detailed analysis. Please try again."]>>),
   recommendations |-> List(<<[priority |-> "High",
                               action |-> "Re-run the analysis for detailed insights",
                               impact |-> "Get specific recommendations for growth optimization",
                               effort |-> "Low"]>>)]

\* the required-fields test of parseAnalysisResponse
HasRequiredFields(o) ==
  Truthy(o.score) /\ Truthy(o.categories) /\ Truthy(o.recommendations)

\* Math.min(100, Math.max(0, parsedResult.score))
ClampScore(j) ==
  MathMin(Num(100), MathMax(Num(0), ToNumber(j)))

\* the placeholder in the result slot of a call that threw
NoResult ==
  [score |-> Num(0), summary |-> "", feedback |-> "",
   categories |-> NoList, recommendations |-> NoList]

\* parseCatch with the error thrown again instead of the fallback returned
parseCatchRethrows ==
  [ok |-> FALSE, message |-> <<"No valid JSON found in Claude response">>,
   result |-> NoResult]

\* the catch block of parseAnalysisResponse
parseCatch ==
  [ok |-> TRUE, message |-> << >>, result |-> FallbackResult]

\* AnthropicService.parseAnalysisResponse
parseAnalysisResponse(response) ==
  LET span == JsonMatch(StripFences(response))
  IN  IF span = << >> THEN parseCatch
      ELSE IF ~JsonParses(span) THEN parseCatch
      ELSE LET o == JsonParse(span)
               summary == IF Truthy(o.summary) THEN o.summary.s
                          ELSE "Analysis completed successfully."
           IN  IF ~HasRequiredFields(o) THEN parseCatch
               ELSE [ok |-> TRUE, message |-> << >>,
                     result |-> [score |-> ClampScore(o.score),
                                 summary |-> summary,
                                 feedback |-> summary,
                                 categories |-> o.categories,
                                 recommendations |-> o.recommendations]]

\* what the language-model call can end in: a reply, or an error of the SDK
ModelErrors ==
  {"429 rate_limit_error: Number of request tokens has exceeded your rate limit",
   "401 authentication_error: invalid x-api-key",
   "529 overloaded_error: Overloaded",
   "Connection error."}

ModelOutcomes ==
  {[kind |-> "reply", reply |-> r, error |-> ""] : r \in ModelReplies}
  \cup {[kind |-> "error", reply |-> << >>, error |-> e] : e \in ModelErrors}

GenThrown(msg) ==
  [ok |-> FALSE, message |-> msg, result |-> NoResult]

\* analyzeCatch answering a failed call with the fallback result
analyzeCatchFallback(msg) ==
  parseCatch

\* the catch block of analyzeWebsiteGrowth
analyzeCatch(msg) ==
  IF Includes(msg, "rate_limit")
  THEN GenThrown(<<"Claude API rate limit exceeded. Please try again in a few minutes.">>)
  ELSE IF Includes(msg, "invalid_api_key") \/ Includes(msg, "authentication")
  THEN GenThrown(<<"Invalid Anthropic API key. Please check your ANTHROPIC_API_KEY environment variable.">>)
  ELSE IF Includes(msg, "overloaded")
  THEN GenThrown(<<"Claude AI service is temporarily overloaded. Please try again in a moment.">>)
  ELSE GenThrown(<<"AI analysis failed: ">> \o msg)

\* AnthropicService.analyzeWebsiteGrowth up to the call of the model: the
\* error it ends in when no client was constructed
analyzeNotConfigured ==
  analyzeCatch(<<"Anthropic API key not configured">>)

\* AnthropicService.analyzeWebsiteGrowth from the return of the model call
analyzeWebsiteGrowth(outcome) ==
  IF outcome.kind = "error" THEN analyzeCatch(<<outcome.error>>)
  ELSE parseAnalysisResponse(outcome.reply)

(***************************************************************************)
(* The route handler's responses                                           *)
(***************************************************************************)
NoAnalysis ==
  [score |-> Num(0), feedback |-> "", categories |-> NoList, recommendations |-> NoList]

ErrorResponse(status, error, message, details) ==
  [status |-> status, error |-> error, message |-> message, details |-> details,
   success |-> FALSE, analysis |-> NoAnalysis, contentLength |-> 0]

\* routeCatch without the rate-limit branch
routeCatchNoRateLimit(msg, env) ==
  IF Includes(msg, "API key")
  THEN ErrorResponse(500, "Configuration error",
         "Service temporarily unavailable. Please try again later.", << >>)
  ELSE IF Includes(msg, "timeout")
  THEN ErrorResponse(504, "Request timeout",
         "The analysis took too long. Please try with a smaller website or try again later.", << >>)
  ELSE ErrorResponse(500, "Analysis failed",
         "Unable to complete the website analysis. Please try again.",
         IF env = "development" THEN msg ELSE << >>)

\* routeCatch with details: error.message sent in every environment
routeCatchAlwaysDetails(msg, env) ==
  IF Includes(msg, "rate limit")
  THEN ErrorResponse(429, "Rate limit exceeded",
         "Too many requests. Please wait a moment before trying again.", << >>)
  ELSE IF Includes(msg, "API key")
  THEN ErrorResponse(500, "Configuration error",
         "Service temporarily unavailable. Please try again later.", << >>)
  ELSE IF Includes(msg, "timeout")
  THEN ErrorResponse(504, "Request timeout",
         "The analysis took too long. Please try with a smaller website or try again later.", << >>)
  ELSE ErrorResponse(500, "Analysis failed",
         "Unable to complete the website analysis. Please try again.", msg)

\* the catch block of router.post('/')
routeCatch(msg, env) ==
  IF Includes(msg, "rate limit")
  THEN ErrorResponse(429, "Rate limit exceeded",
         "Too many requests. Please wait a moment before trying again.", << >>)
  ELSE IF Includes(msg, "API key")
  THEN ErrorResponse(500, "Configuration error",
         "Service temporarily unavailable. Please try again later.", << >>)
  ELSE IF Includes(msg, "timeout")
  THEN ErrorResponse(504, "Request timeout",
         "The analysis took too long. Please try with a smaller website or try again later.", << >>)
  ELSE ErrorResponse(500, "Analysis failed",
         "Unable to complete the website analysis. Please try again.",
         IF env = "development" THEN msg ELSE << >>)

\* res.json({success: true, ...}) of router.post('/')
SuccessResponse(result, content) ==
  [status |-> 200, error |-> "", message |-> "", details |-> << >>,
   success |-> TRUE,
   analysis |-> [score |-> result.score, feedback |-> result.feedback,
                 categories |-> result.categories,
                 recommendations |-> result.recommendations],
   contentLength |-> Len(content)]

NoResponse ==
  [status |-> 0, error |-> "", message |-> "", details |-> << >>,
   success |-> FALSE, analysis |-> NoAnalysis, contentLength |-> 0]

(***************************************************************************)
(* Lead store: the table website_submissions and its queries               *)
(***************************************************************************)
\* the clock counts ticks; TicksPerDay of them make a calendar day
MaxTime ==
  2

TicksPerDay ==
  2

\* the number of saveWebsiteSubmission calls a behaviour may start
MaxSaves ==
  2

RecentLimit ==
  10

Callers ==
  {"c1", "c2"}

\* DATE(t)
Day(t) ==
  t \div TicksPerDay

SaveAnalyses ==
  { [score |-> 72, summary |-> "A solid site.",
     categories |-> TwoCategories, recommendations |-> TwoRecommendations],
    [score |-> 40, summary |-> "Needs work.",
     categories |-> List(<<Category("Growth Mechanics", 5)>>),
     recommendations |-> List(<<Recommendation("Medium", "Add an email capture")>>)] }

\* the submissionData of a save
SaveInputs ==
  { [url |-> u, analysis |-> a, contentLength |-> n] :
      u \in ValidUrls, a \in SaveAnalyses, n \in {1500} }

NoData ==
  [url |-> << >>, analysis |-> CHOOSE a \in SaveAnalyses : a.score = 72, contentLength |-> 0]

NullRef ==
  [id |-> 0, created_at |-> 0, domain |-> << >>]

\* how a call of saveWebsiteSubmission ended: it returned a row reference,
\* returned null, or threw; error is the code of the error it caught last
SaveReturned(ref, code) ==
  [kind |-> "ref", ref |-> ref, error |-> code]

SaveNull(code) ==
  [kind |-> "null", ref |-> NullRef, error |-> code]

SaveThrew(code) ==
  [kind |-> "threw", ref |-> NullRef, error |-> code]

SavePending ==
  [kind |-> "pending", ref |-> NullRef, error |-> ""]

\* RETURNING id, created_at, domain
Returning(row) ==
  [id |-> row.id, created_at |-> row.created_at, domain |-> row.domain]

\* the row the INSERT statement writes
NewRow(id, data, domain, currentTime) ==
  [id |-> id, url |-> data.url, domain |-> domain,
   growth_score |-> data.analysis.score,
   analysis_summary |-> data.analysis.summary,
   analysis_categories |-> data.analysis.categories,
   recommendations |-> data.analysis.recommendations,
   content_length |-> data.contentLength,
   created_at |-> currentTime, analyzed_at |-> currentTime]

\* UniqueViolation with the index on (url, created_at), the DATE() left out
UniqueViolationExactTime(table, row) ==
  \E r \in table : r.url = row.url /\ r.created_at = row.created_at

\* UniqueViolation with the index on url alone
UniqueViolationUrlOnly(table, row) ==
  \E r \in table : r.url = row.url

\* the unique index idx_submissions_url_date on (url, DATE(created_at))
\* rejects a row whose url and creation day are those of a stored row
UniqueViolation(table, row) ==
  \E r \in table : r.url = row.url /\ Day(r.created_at) = Day(row.created_at)

\* WHERE url = $1 AND DATE(created_at) = CURRENT_DATE
UpdateMatches(table, url, currentDate) ==
  {r \in table : r.url = url /\ Day(r.created_at) = currentDate}

\* UpdatedRow with recommendations missing from the SET clause
UpdatedRowKeepsRecommendations(r, data, currentTime) ==
  [r EXCEPT !.growth_score = data.analysis.score,
            !.analysis_summary = data.analysis.summary,
            !.analysis_categories = data.analysis.categories,
            !.content_length = data.contentLength,
            !.analyzed_at = currentTime]

\* UpdatedRow with created_at in the SET clause as well
UpdatedRowResetsCreated(r, data, currentTime) ==
  [r EXCEPT !.growth_score = data.analysis.score,
            !.analysis_summary = data.analysis.summary,
            !.analysis_categories = data.analysis.categories,
            !.recommendations = data.analysis.recommendations,
            !.content_length = data.contentLength,
            !.analyzed_at = currentTime,
            !.created_at = currentTime]

\* the SET clause of the UPDATE statement
UpdatedRow(r, data, currentTime) ==
  [r EXCEPT !.growth_score = data.analysis.score,
            !.analysis_summary = data.analysis.summary,
            !.analysis_categories = data.analysis.categories,
            !.recommendations = data.analysis.recommendations,
            !.content_length = data.contentLength,
            !.analyzed_at = currentTime]

\* InnerCatch that throws every error again
InnerCatchRethrowsAll(code) ==
  "rethrow"

\* the inner catch of saveWebsiteSubmission: a unique violation (23505)
\* leads to the UPDATE, any other error is thrown again
InnerCatch(code) ==
  IF code = "23505" THEN "update" ELSE "rethrow"

\* OuterCatch with the error thrown again
OuterCatchRethrows(code) ==
  SaveThrew(code)

\* the outer catch of saveWebsiteSubmission: log and return null
OuterCatch(code) ==
  SaveNull(code)

\* error codes of a failing INSERT other than the unique violation
InsertErrorCodes ==
  {"57P01", "22001"}

\* getLeadStats: the aggregate row and the catch block's empty result;
\* overview {} is the record with defined = FALSE
Overview(table) ==
  [defined |-> TRUE,
   total_submissions |-> Cardinality(table),
   unique_domains |-> Cardinality({r.domain : r \in table}),
   excellent_scores |-> Cardinality({r \in table : r.growth_score >= 80}),
   good_scores |-> Cardinality({r \in table : r.growth_score >= 65}),
   poor_scores |-> Cardinality({r \in table : r.growth_score < 45})]

EmptyOverview ==
  [defined |-> FALSE, total_submissions |-> 0, unique_domains |-> 0,
   excellent_scores |-> 0, good_scores |-> 0, poor_scores |-> 0]

\* the catch block of getLeadStats, entered with the error the query raised
StatsCatch(code) ==
  [kind |-> "returned", error |-> code,
   overview |-> EmptyOverview, recentSubmissions |-> << >>]

NoStats ==
  [kind |-> "none", error |-> "",
   overview |-> EmptyOverview, recentSubmissions |-> << >>]

\* ORDER BY created_at DESC LIMIT 10: the orderings the query may return
RecentOrders(table) ==
  LET n == Cardinality(table)
      m == IF n < RecentLimit THEN n ELSE RecentLimit
  IN  { [i \in 1..m |-> [domain |-> f[i].domain, growth_score |-> f[i].growth_score,
                         created_at |-> f[i].created_at]] :
          f \in { g \in [1..n -> table] :
                    /\ \A i, j \in 1..n : i # j => g[i] # g[j]
                    /\ \A i, j \in 1..n : i < j => g[i].created_at >= g[j].created_at } }

(***************************************************************************)
(* Admin routes: the shared-secret check                                   *)
(*                                                                         *)
(* A token or header is the sequence of the text pieces it is made of;     *)
(* << >> stands for one that is absent or empty.                           *)
(***************************************************************************)
DefaultAdminToken ==
  <<"growth-analyzer-admin-2024">>

AdminTokenEnvs ==
  {<< >>, <<"s3cret">>}

\* const ADMIN_TOKEN = process.env.ADMIN_TOKEN || 'growth-analyzer-admin-2024'
ADMIN_TOKEN(env) ==
  IF env # << >> THEN env ELSE DefaultAdminToken

\* req.query.token || req.headers.authorization?.replace('Bearer ', '')
PresentedToken(query, header) ==
  IF query # << >> THEN query ELSE RemoveFirst(header, <<"Bearer ">>)

\* requireAdmin without the comparison: any non-empty token passes
requireAdminAnyToken(a, secret) ==
  IF PresentedToken(a.query, a.header) = << >>
  THEN [a EXCEPT !.pc = "done", !.status = 401]
  ELSE [a EXCEPT !.pc = "handler"]

\* requireAdmin: 401, or next() into the route's handler
requireAdmin(a, secret) ==
  LET token == PresentedToken(a.query, a.header)
  IN  IF token = << >> \/ token # secret
      THEN [a EXCEPT !.pc = "done", !.status = 401]
      ELSE [a EXCEPT !.pc = "handler"]

(***************************************************************************)
(* The rate limiter in front of /api/                                      *)
(*                                                                         *)
(* rateLimit({windowMs, max}) counts the requests of each client (req.ip)  *)
(* in its memory store and answers 429 once the count exceeds max.  A      *)
(* client's count starts again at its reset time: windowMs after the first *)
(* request it counted (mode "key"), or, in the releases that clear the     *)
(* whole store on a timer, at the next multiple of windowMs (mode "all").  *)
(***************************************************************************)
\* max: 10
RateLimitMax ==
  10

\* windowMs, 15 minutes, in ticks of the clock
WindowTicks ==
  2

\* the number of requests a behaviour may send through the limiter
MaxApiRequests ==
  12

Clients ==
  {"k1", "k2"}

IdleLimiter(mode) ==
  [mode |-> mode,
   hits |-> [k \in Clients |-> [count |-> 0, resetTime |-> 0]],
   passed |-> [k \in Clients |-> [u \in 0..MaxTime |-> 0]],
   requests |-> 0, last |-> "", lastPassed |-> FALSE]

\* the reset time of a count that starts at time t
ResetTime(t, mode) ==
  IF mode = "key" THEN t + WindowTicks
  ELSE ((t \div WindowTicks) + 1) * WindowTicks

\* Hit admitting one request more than max
HitOffByOne(l, k, t) ==
  LET h     == l.hits[k]
      fresh == h.count = 0 \/ t >= h.resetTime
      entry == IF fresh THEN [count |-> 1, resetTime |-> ResetTime(t, l.mode)]
               ELSE [h EXCEPT !.count = h.count + 1]
      pass  == entry.count <= RateLimitMax + 1
  IN  [l EXCEPT !.hits[k] = entry,
                !.passed[k][t] = IF pass THEN l.passed[k][t] + 1 ELSE l.passed[k][t],
                !.requests = l.requests + 1, !.last = k, !.lastPassed = pass]

\* the limiter middleware on a request of client k at time t: the store's
\* increment, then next() when the count is within max
Hit(l, k, t) ==
  LET h     == l.hits[k]
      fresh == h.count = 0 \/ t >= h.resetTime
      entry == IF fresh THEN [count |-> 1, resetTime |-> ResetTime(t, l.mode)]
               ELSE [h EXCEPT !.count = h.count + 1]
      pass  == entry.count <= RateLimitMax
  IN  [l EXCEPT !.hits[k] = entry,
                !.passed[k][t] = IF pass THEN l.passed[k][t] + 1 ELSE l.passed[k][t],
                !.requests = l.requests + 1, !.last = k, !.lastPassed = pass]

\* the limiter's own response: 429 with its message object
LimiterResponse ==
  [status |-> 429, error |-> "Too many analysis requests, please try again later.",
   message |-> "", details |-> << >>, success |-> FALSE, analysis |-> NoAnalysis,
   contentLength |-> 0]

(***************************************************************************)
(* State                                                                   *)
(***************************************************************************)
Reqs ==
  {"r1"}

VARIABLES
  nodeEnv,         \* process.env.NODE_ENV
  anthropicReady,  \* AnthropicService.anthropic was constructed (API key set)
  req,             \* per request of POST /api/analyze: the handler's state
  now,             \* the clock
  dbUp,            \* the database answers queries
  rows,            \* the table website_submissions
  nextId,          \* the sequence behind id SERIAL
  saves,           \* saveWebsiteSubmission calls started so far
  save,            \* per caller: the state of its saveWebsiteSubmission call
  stats,           \* what the getLeadStats call of GET /admin/leads returned
  probe,           \* the last direct call of a service function: input and result
  adminTokenEnv,   \* process.env.ADMIN_TOKEN; << >> when it is not set
  adm,             \* the request to /api/admin being served
  lim              \* the rate limiter's store, and the requests it has seen

vars ==
  <<nodeEnv, anthropicReady, req, now, dbUp, rows, nextId, saves, save, stats,
    probe, adminTokenEnv, adm, lim>>

\* the variables the analyze route and the lead store leave alone
sideVars ==
  <<probe, adminTokenEnv, adm, lim>>

reqVars ==
  <<nodeEnv, anthropicReady, req>>

storeVars ==
  <<now, dbUp, rows, nextId, saves, save, stats>>

NoCrawl ==
  [ok |-> FALSE, message |-> << >>, content |-> << >>, contentLength |-> 0]

NoGen ==
  [ok |-> FALSE, message |-> << >>, result |-> NoResult]

NoOutcome ==
  [kind |-> "none", reply |-> << >>, error |-> ""]

IdleReq ==
  [pc |-> "idle", url |-> NoUrl, scrapeStatus |-> 0, crawl |-> NoCrawl,
   outcome |-> NoOutcome, gen |-> NoGen,
   fetcherCalls |-> 0, generatorCalls |-> 0, modelCalls |-> 0,
   response |-> NoResponse, responses |-> 0]

IdleAdmin ==
  [pc |-> "idle", route |-> "", query |-> << >>, header |-> << >>,
   status |-> 0, storeCalls |-> 0]

NoProbe ==
  [fn |-> "none", input |-> << >>, output |-> << >>]

IdleSave ==
  [pc |-> "idle", data |-> NoData, domain |-> << >>, currentTime |-> 0,
   outcome |-> SavePending]

Init ==
  /\ nodeEnv \in {"development", "production"}
  /\ anthropicReady \in BOOLEAN
  /\ req = [r \in Reqs |-> IdleReq]
  /\ now = 0
  /\ dbUp = TRUE
  /\ rows = {}
  /\ nextId = 1
  /\ saves = 0
  /\ save = [c \in Callers |-> IdleSave]
  /\ stats = NoStats
  /\ probe = NoProbe
  /\ adminTokenEnv \in AdminTokenEnvs
  /\ adm = IdleAdmin
  /\ lim \in {IdleLimiter("key"), IdleLimiter("all")}

(***************************************************************************)
(* POST /api/analyze                                                       *)
(***************************************************************************)
\* Respond with nothing sent
RespondNothing(q, response) ==
  [q EXCEPT !.pc = "done"]

Respond(q, response) ==
  [q EXCEPT !.pc = "done", !.response = response, !.responses = q.responses + 1]

\* handleRequest without the URL_REGEX test
handleRequestNoPattern(q, b) ==
  IF UrlFalsy(b)
  THEN Respond([q EXCEPT !.url = b],
         ErrorResponse(400, "URL is required",
                       "Please provide a website URL to analyze", << >>))
  ELSE [q EXCEPT !.pc = "crawling", !.url = b, !.fetcherCalls = q.fetcherCalls + 1]

\* router.post('/') from its entry to the call of crawlWebsite
handleRequest(q, b) ==
  IF UrlFalsy(b)
  THEN Respond([q EXCEPT !.url = b],
         ErrorResponse(400, "URL is required",
                       "Please provide a website URL to analyze", << >>))
  ELSE IF ~URL_REGEX_test(b.text)
  THEN Respond([q EXCEPT !.url = b],
         ErrorResponse(400, "Invalid URL format",
                       "Please provide a valid website URL (including http:// or https://)", << >>))
  ELSE [q EXCEPT !.pc = "crawling", !.url = b, !.fetcherCalls = q.fetcherCalls + 1]

\* handleCrawled going on to the model although the crawl failed
handleCrawledIgnoresFailure(q, c, env, ready) ==
  IF ~ready
  THEN Respond([q EXCEPT !.crawl = c, !.gen = analyzeNotConfigured,
                         !.generatorCalls = q.generatorCalls + 1],
               routeCatch(analyzeNotConfigured.message, env))
  ELSE [q EXCEPT !.pc = "analyzing", !.crawl = c,
                 !.generatorCalls = q.generatorCalls + 1,
                 !.modelCalls = q.modelCalls + 1]

\* router.post('/') from the return of crawlWebsite to the call of the model
handleCrawled(q, c, env, ready) ==
  IF ~c.ok THEN Respond([q EXCEPT !.crawl = c], routeCatch(c.message, env))
  ELSE IF c.content = << >>
  THEN Respond([q EXCEPT !.crawl = c],
         ErrorResponse(400, "Unable to crawl website",
                       "The website could not be accessed or analyzed. Please check the URL and try again.", << >>))
  ELSE IF ~ready
  THEN Respond([q EXCEPT !.crawl = c, !.gen = analyzeNotConfigured,
                         !.generatorCalls = q.generatorCalls + 1],
               routeCatch(analyzeNotConfigured.message, env))
  ELSE [q EXCEPT !.pc = "analyzing", !.crawl = c,
                 !.generatorCalls = q.generatorCalls + 1,
                 !.modelCalls = q.modelCalls + 1]

\* handleAnalyzed calling the model once more after a failed call
handleAnalyzedRetries(q, g, env) ==
  IF ~g.ok /\ q.modelCalls < 2
  THEN [q EXCEPT !.gen = g, !.modelCalls = q.modelCalls + 1]
  ELSE IF ~g.ok THEN Respond([q EXCEPT !.gen = g], routeCatch(g.message, env))
  ELSE Respond([q EXCEPT !.gen = g], SuccessResponse(g.result, q.crawl.content))

\* handleAnalyzed with an awaited save whose failure reaches the catch block
handleAnalyzedSaveFatal(q, g, env) ==
  IF ~g.ok THEN Respond([q EXCEPT !.gen = g], routeCatch(g.message, env))
  ELSE IF ~dbUp
  THEN Respond([q EXCEPT !.gen = g], routeCatch(<<"connect ECONNREFUSED">>, env))
  ELSE Respond([q EXCEPT !.gen = g], SuccessResponse(g.result, q.crawl.content))

\* router.post('/') from the return of analyzeWebsiteGrowth to the response
handleAnalyzed(q, g, env) ==
  IF ~g.ok THEN Respond([q EXCEPT !.gen = g], routeCatch(g.message, env))
  ELSE Respond([q EXCEPT !.gen = g], SuccessResponse(g.result, q.crawl.content))

Receive(r) ==
  /\ req[r].pc = "idle"
  /\ \E b \in BodyUrls : req' = [req EXCEPT ![r] = handleRequest(req[r], b)]
  /\ UNCHANGED <<nodeEnv, anthropicReady, storeVars, sideVars>>

CrawlReturn(r) ==
  /\ req[r].pc = "crawling"
  /\ \E resp \in CrawlResponses :
       req' = [req EXCEPT ![r] =
                 handleCrawled([req[r] EXCEPT !.scrapeStatus = resp.status],
                               crawlWebsite(resp), nodeEnv, anthropicReady)]
  /\ UNCHANGED <<nodeEnv, anthropicReady, storeVars, sideVars>>

ModelReturn(r) ==
  /\ req[r].pc = "analyzing"
  /\ \E o \in ModelOutcomes :
       req' = [req EXCEPT ![r] =
                 handleAnalyzed([req[r] EXCEPT !.outcome = o],
                                analyzeWebsiteGrowth(o), nodeEnv)]
  /\ UNCHANGED <<nodeEnv, anthropicReady, storeVars, sideVars>>

(***************************************************************************)
(* saveWebsiteSubmission and getLeadStats                                  *)
(***************************************************************************)
\* from the entry to the INSERT being sent: the domain and currentTime
SaveBegin(c) ==
  /\ save[c].pc \in {"idle", "done"}
  /\ saves < MaxSaves
  /\ \E d \in SaveInputs :
       save' = [save EXCEPT ![c] =
                  [pc |-> "insert", data |-> d, domain |-> extractDomain(d.url),
                   currentTime |-> now, outcome |-> SavePending]]
  /\ saves' = saves + 1
  /\ UNCHANGED <<reqVars, sideVars, now, dbUp, rows, nextId, stats>>

\* the INSERT statement runs
SaveInsert(c) ==
  /\ save[c].pc = "insert"
  /\ LET s   == save[c]
         row == NewRow(nextId, s.data, s.domain, s.currentTime)
     IN  IF ~dbUp
         THEN /\ save' = [save EXCEPT ![c] =
                   [s EXCEPT !.pc = "done", !.outcome = OuterCatch("ECONNREFUSED")]]
              /\ UNCHANGED <<rows, nextId>>
         ELSE IF UniqueViolation(rows, row)
         THEN /\ save' = [save EXCEPT ![c] =
                   IF InnerCatch("23505") = "update"
                   THEN [s EXCEPT !.pc = "update", !.outcome.error = "23505"]
                   ELSE [s EXCEPT !.pc = "done", !.outcome = OuterCatch("23505")]]
              /\ nextId' = nextId + 1
              /\ UNCHANGED rows
         ELSE /\ rows' = rows \cup {row}
              /\ nextId' = nextId + 1
              /\ save' = [save EXCEPT ![c] =
                   [s EXCEPT !.pc = "done", !.outcome = SaveReturned(Returning(row), "")]]
  /\ UNCHANGED <<reqVars, sideVars, now, dbUp, saves, stats>>

\* the INSERT statement fails with an error other than the unique violation
SaveInsertError(c) ==
  /\ save[c].pc = "insert"
  /\ dbUp
  /\ \E code \in InsertErrorCodes :
       save' = [save EXCEPT ![c] =
                  IF InnerCatch(code) = "update"
                  THEN [save[c] EXCEPT !.pc = "update", !.outcome.error = code]
                  ELSE [save[c] EXCEPT !.pc = "done", !.outcome = OuterCatch(code)]]
  /\ UNCHANGED <<reqVars, sideVars, now, dbUp, rows, nextId, saves, stats>>

\* the UPDATE statement runs; with no row returned, updatedRecord.id throws
\* a TypeError, which the outer catch turns into null
SaveUpdate(c) ==
  /\ save[c].pc = "update"
  /\ LET s   == save[c]
         hit == UpdateMatches(rows, s.data.url, Day(now))
     IN  IF ~dbUp
         THEN /\ save' = [save EXCEPT ![c] =
                   [s EXCEPT !.pc = "done", !.outcome = OuterCatch("ECONNREFUSED")]]
              /\ UNCHANGED rows
         ELSE IF hit = {}
         THEN /\ save' = [save EXCEPT ![c] =
                   [s EXCEPT !.pc = "done", !.outcome = OuterCatch("TypeError")]]
              /\ UNCHANGED rows
         ELSE /\ rows' = (rows \ hit) \cup {UpdatedRow(r, s.data, s.currentTime) : r \in hit}
              /\ \E r \in hit :
                   save' = [save EXCEPT ![c] =
                     [s EXCEPT !.pc = "done",
                               !.outcome = SaveReturned(Returning(r), s.outcome.error)]]
  /\ UNCHANGED <<reqVars, sideVars, now, dbUp, nextId, saves, stats>>

(***************************************************************************)
(* GET /api/admin/leads: getLeadStats, then the response                   *)
(***************************************************************************)
GetLeadStats ==
  /\ stats.kind = "none"
  /\ IF dbUp
     THEN \E recent \in RecentOrders(rows) :
            stats' = [kind |-> "returned", error |-> "", overview |-> Overview(rows),
                      recentSubmissions |-> recent]
     ELSE stats' = StatsCatch("ECONNREFUSED")
  /\ UNCHANGED <<reqVars, sideVars, now, dbUp, rows, nextId, saves, save>>

AdminRespond ==
  /\ stats.kind # "none"
  /\ stats' = NoStats
  /\ UNCHANGED <<reqVars, sideVars, now, dbUp, rows, nextId, saves, save>>

(***************************************************************************)
(* GET /api/admin/leads, /leads/export and /health behind requireAdmin     *)
(***************************************************************************)
AdminReceive ==
  /\ adm.pc \in {"idle", "done"}
  /\ \E route \in {"leads", "export", "health"} :
     \E query \in {<< >>, DefaultAdminToken, <<"s3cret">>, <<"guess">>} :
     \E header \in {<< >>, <<"Bearer ">>, <<"Bearer ", "s3cret">>, <<"s3cret">>,
                     <<"Bearer ", "growth-analyzer-admin-2024">>, <<"Bearer ", "guess">>} :
       adm' = requireAdmin([IdleAdmin EXCEPT !.route = route, !.query = query,
                                             !.header = header],
                           ADMIN_TOKEN(adminTokenEnv))
  /\ UNCHANGED <<reqVars, storeVars, probe, adminTokenEnv, lim>>

\* the handler of /leads calls getLeadStats
AdminLeadsQuery ==
  /\ adm.pc = "handler"
  /\ adm.route = "leads"
  /\ GetLeadStats

\* the handler of /leads answers with what getLeadStats returned
AdminLeadsRespond ==
  /\ adm.pc = "handler"
  /\ adm.route = "leads"
  /\ stats.kind # "none"
  /\ adm' = [adm EXCEPT !.pc = "done", !.status = 200, !.storeCalls = adm.storeCalls + 1]
  /\ stats' = NoStats
  /\ UNCHANGED <<reqVars, now, dbUp, rows, nextId, saves, save, probe, adminTokenEnv, lim>>

\* the handler of /leads/export runs its query on the pool: 500 when the
\* query fails, as it does when it names a column the table has not
AdminExport ==
  /\ adm.pc = "handler"
  /\ adm.route = "export"
  /\ LET columns == {"id", "url", "domain", "growth_score", "analysis_summary",
                     "analysis_categories", "recommendations", "content_length",
                     "created_at", "analyzed_at"}
         selected == {"domain", "url", "growth_score", "title", "analysis_summary",
                      "ip_address", "created_at", "analyzed_at"}
     IN  adm' = [adm EXCEPT !.pc = "done", !.storeCalls = adm.storeCalls + 1,
                            !.status = IF dbUp /\ selected \subseteq columns
                                       THEN 200 ELSE 500]
  /\ UNCHANGED <<reqVars, storeVars, probe, adminTokenEnv, lim>>

\* the handler of /health calls testConnection, which returns a boolean
AdminHealth ==
  /\ adm.pc = "handler"
  /\ adm.route = "health"
  /\ adm' = [adm EXCEPT !.pc = "done", !.status = 200, !.storeCalls = adm.storeCalls + 1]
  /\ UNCHANGED <<reqVars, storeVars, probe, adminTokenEnv, lim>>

(***************************************************************************)
(* app.use('/api/', limiter) in front of POST /api/analyze                 *)
(***************************************************************************)
\* a request of client k: answered by the limiter, or passed on to the
\* route handler, which runs up to its call of crawlWebsite
ApiRequest(k) ==
  /\ lim.requests < MaxApiRequests
  /\ lim' = Hit(lim, k, now)
  /\ \E r \in Reqs : \E b \in {NoUrl, Str(UrlA)} :
       req' = [req EXCEPT ![r] =
                 IF lim'.lastPassed THEN handleRequest(IdleReq, b)
                 ELSE Respond([IdleReq EXCEPT !.url = b], LimiterResponse)]
  /\ UNCHANGED <<nodeEnv, anthropicReady, storeVars, probe, adminTokenEnv, adm>>

(***************************************************************************)
(* Environment                                                             *)
(***************************************************************************)
Tick ==
  /\ now < MaxTime
  /\ now' = now + 1
  /\ UNCHANGED <<reqVars, sideVars, dbUp, rows, nextId, saves, save, stats>>

DbDown ==
  /\ dbUp
  /\ dbUp' = FALSE
  /\ UNCHANGED <<reqVars, sideVars, now, rows, nextId, saves, save, stats>>

DbUp ==
  /\ ~dbUp
  /\ dbUp' = TRUE
  /\ UNCHANGED <<reqVars, sideVars, now, rows, nextId, saves, save, stats>>

RequestNext ==
  \E r \in Reqs : Receive(r) \/ CrawlReturn(r) \/ ModelReturn(r)

AdminNext ==
  GetLeadStats \/ AdminRespond

EnvNext ==
  Tick \/ DbDown \/ DbUp

SaveNext ==
  \E c \in Callers : SaveBegin(c) \/ SaveInsert(c) \/ SaveInsertError(c) \/ SaveUpdate(c)

\* The analyze route as it is wired, and the environment.  No route calls
\* saveWebsiteSubmission.
Next ==
  RequestNext \/ EnvNext

Spec ==
  Init /\ [][Next]_vars

\* The analyze route with every outbound call returning or failing: an
\* awaited call of crawlWebsite or of the model settles
LiveSpec ==
  Spec /\ WF_vars(\E r \in Reqs : CrawlReturn(r) \/ ModelReturn(r))

\* The lead store driven through its interface by concurrent callers
StoreInit ==
  /\ Init
  /\ nodeEnv = "production"
  /\ anthropicReady
  /\ adminTokenEnv = << >>
  /\ lim = IdleLimiter("key")

StoreNext ==
  SaveNext \/ AdminNext \/ EnvNext

StoreSpec ==
  StoreInit /\ [][StoreNext]_vars

LimiterInit ==
  /\ Init
  /\ nodeEnv = "production"
  /\ anthropicReady
  /\ adminTokenEnv = << >>

\* The limiter in front of the analyze route, and the clock
LimiterSpec ==
  LimiterInit /\ [][(\E k \in Clients : ApiRequest(k)) \/ Tick]_vars

AdminRouteNext ==
  AdminReceive \/ AdminLeadsQuery \/ AdminLeadsRespond \/ AdminExport \/ AdminHealth

AdminInit ==
  Init /\ nodeEnv = "production" /\ anthropicReady /\ lim = IdleLimiter("key")

\* The admin routes behind requireAdmin, and the environment
AdminSpec ==
  AdminInit /\ [][AdminRouteNext \/ EnvNext]_vars

(***************************************************************************)
(* The service functions called directly                                   *)
(***************************************************************************)
\* the longest content text enumerated character by character
MaxProbeLen ==
  5

CleanAlphabet ==
  {"a", " ", "\n", "U+0000"}

\* the raw texts cleanContent is called with: every text over CleanAlphabet
\* up to MaxProbeLen, and texts around the length limit
CleanInputs ==
  { Rep("a", MaxContentLength),
    Rep("a", MaxContentLength + 1),
    <<" ", "U+0000">> \o Rep("a", MaxContentLength) \o <<"b", "U+0007", " ">>,
    Rep("a", MaxContentLength - 1) \o <<" ", " ", "b", "c">> }
  \cup UNION {[1..n -> CleanAlphabet] : n \in 0..MaxProbeLen}

UrlWwwExample ==
  Https \o Www \o <<"e","x","a","m","p","l","e",".","c","o","m",
                    "/","p","a","g","e","?","x","=","1">>

UrlInnerWww ==
  Https \o <<"a", ".">> \o Www \o <<"c", "o">>

UrlWwwTwice ==
  Https \o Www \o Www \o <<"c", "o", "/">> \o Www

UrlSuffixWww ==
  Http \o <<"a", "w", "w", "w", ".", "b", ".", "i", "o", ":", "8", "0", "/", "p">>

\* the urls extractDomain is called with
DomainInputs ==
  ValidUrls \cup InvalidUrls
  \cup {UrlWwwExample, UrlInnerWww, UrlWwwTwice, UrlSuffixWww}

\* a 2xx answer of the crawling service carrying the markdown md
OkResponse(md) ==
  [kind |-> "ok", status |-> 200, error |-> "", success |-> TRUE,
   hasData |-> TRUE, data |-> CrawlResult(md, << >>)]

\* the answers crawlWebsite is called with: those of CrawlResponses, and
\* pages whose cleaned length lies around the two limits
CrawlInputs ==
  CrawlResponses
  \cup { OkResponse(Rep("a", n)) :
           n \in {1, MinContentLength - 1, MinContentLength, MinContentLength + 1,
                  MaxContentLength, MaxContentLength + 1} }
  \cup { OkResponse(<<" ", "\n">> \o Rep("a", MinContentLength - 1) \o <<"U+0000", " ">>),
         OkResponse(Rep("a", MinContentLength - 2) \o <<" ", "\n", "b">>),
         OkResponse(Rep(" ", MinContentLength + 1)) }

CallCleanContent ==
  /\ probe.fn = "none"
  \* the short texts are tried before the long ones
  /\ \E n \in 0..1 :
       \E c \in {x \in CleanInputs : (Len(x) > MaxProbeLen) = (n = 1)} :
         probe' = [fn |-> "cleanContent", input |-> c, output |-> cleanContent(c)]
  /\ UNCHANGED <<reqVars, storeVars, adminTokenEnv, adm, lim>>

CallExtractDomain ==
  /\ probe.fn = "none"
  /\ \E u \in DomainInputs :
       probe' = [fn |-> "extractDomain", input |-> u, output |-> extractDomain(u)]
  /\ UNCHANGED <<reqVars, storeVars, adminTokenEnv, adm, lim>>

\* the crawl data extractContent is called with: each field absent, or one
\* of a few texts
ExtractInputs ==
  { [markdown |-> md, content |-> c, text |-> x, html |-> h] :
      md \in {<< >>, <<" ">>, <<"m", " ", "U+0000", " ", "m">>},
      c  \in {<< >>, <<"c", "\n", "c">>},
      x  \in {<< >>, <<"t">>},
      h  \in {<< >>, <<"<", "p", ">", "h", "<", "/", "p", ">", " ", "<", "b", "r", ">">>} }

CallExtractContent ==
  /\ probe.fn = "none"
  /\ \E d \in ExtractInputs :
       probe' = [fn |-> "extractContent", input |-> d, output |-> extractContent(d)]
  /\ UNCHANGED <<reqVars, storeVars, adminTokenEnv, adm, lim>>

CallCrawlWebsite ==
  /\ probe.fn = "none"
  /\ \E resp \in CrawlInputs :
       probe' = [fn |-> "crawlWebsite", input |-> resp, output |-> crawlWebsite(resp)]
  /\ UNCHANGED <<reqVars, storeVars, adminTokenEnv, adm, lim>>

\* the caller drops the result
CallDone ==
  /\ probe.fn # "none"
  /\ probe' = NoProbe
  /\ UNCHANGED <<reqVars, storeVars, adminTokenEnv, adm, lim>>

PureNext ==
  CallCleanContent \/ CallExtractDomain \/ CallExtractContent \/ CallCrawlWebsite
  \/ CallDone

\* The service functions driven one call at a time
PureSpec ==
  StoreInit /\ [][PureNext]_vars

(***************************************************************************)
(* Properties                                                              *)
(***************************************************************************)
StatusOf(r) ==
  req[r].response.status

\* C1: a request whose url is missing or does not match the URL pattern is
\* answered 400 and calls neither crawlWebsite nor analyzeWebsiteGrowth.
C1_InvalidUrlRejected ==
  \A r \in Reqs :
    LET q == req[r]
    IN  (/\ q.pc # "idle"
         /\ \/ UrlFalsy(q.url)
            \/ ~URL_REGEX_test(q.url.text)
            \/ q.url.text \in InvalidUrls)
        => /\ q.pc = "done"
           /\ q.response.status = 400
           /\ q.fetcherCalls = 0
           /\ q.generatorCalls = 0
           /\ q.modelCalls = 0

C1_Witness ==
  \E r \in Reqs :
    /\ req[r].pc = "done"
    /\ req[r].url = Str(UrlFtp)
    /\ StatusOf(r) = 400
    /\ req[r].fetcherCalls = 0

\* C2: every result the generator returns has a score between 0 and 100,
\* whatever the model replied.
C2_ScoreInRange ==
  \A r \in Reqs :
    req[r].gen.ok =>
      /\ ~req[r].gen.result.score.nan
      /\ req[r].gen.result.score.n >= 0
      /\ req[r].gen.result.score.n <= 100

\* a reply that holds no complete JSON object carrying the three required
\* members
MalformedReply(reply) ==
  \A i \in 1..Len(reply) :
    reply[i].k = "object" =>
      \/ reply[i].obj.score.t = "absent"
      \/ reply[i].obj.categories.t = "absent"
      \/ reply[i].obj.recommendations.t = "absent"

\* C3: for a malformed or non-JSON reply the generator does not raise and
\* returns the one fallback result: score 50, the single category
\* "Analysis Error", a single recommendation.
C3_FallbackOnMalformedReply ==
  \A r \in Reqs :
    LET q == req[r]
    IN  (q.outcome.kind = "reply" /\ MalformedReply(q.outcome.reply))
        => /\ q.gen.ok
           /\ q.gen.result = FallbackResult
           /\ q.gen.result.score = Num(50)
           /\ Len(q.gen.result.categories.a) = 1
           /\ q.gen.result.categories.a[1].name = "Analysis Error"
           /\ Len(q.gen.result.recommendations.a) = 1

C3_Witness ==
  \E r \in Reqs :
    /\ req[r].outcome.kind = "reply"
    /\ req[r].outcome.reply = <<Item("cut")>>
    /\ req[r].gen.ok
    /\ req[r].gen.result.score = Num(50)

\* the rows of a url created on a day
RowsOf(table, url, day) ==
  {r \in table : r.url = url /\ Day(r.created_at) = day}

\* the analysis fields of row r are those of the call s
CarriesCall(r, s) ==
  /\ r.growth_score = s.data.analysis.score
  /\ r.analysis_summary = s.data.analysis.summary
  /\ r.analysis_categories = s.data.analysis.categories
  /\ r.recommendations = s.data.analysis.recommendations
  /\ r.analyzed_at = s.currentTime

\* C4: a save that finds its url already stored for the day, and runs
\* within that day against a working store, leaves exactly one row for
\* (url, day), holding this second call's analysis fields, and returns it.
C4_SameDayResave ==
  [][\A c \in Callers :
       LET s == save[c]
           d == Day(s.currentTime)
       IN  (s.pc = "update" /\ save'[c].pc = "done" /\ dbUp /\ Day(now) = d)
           => /\ save'[c].outcome.kind = "ref"
              /\ Cardinality(RowsOf(rows', s.data.url, d)) = 1
              /\ \A r \in RowsOf(rows', s.data.url, d) :
                   /\ CarriesCall(r, s)
                   /\ save'[c].outcome.ref.id = r.id]_vars

C4_Witness ==
  \E c \in Callers : \E r \in rows :
    /\ save[c].pc = "done"
    /\ save[c].outcome.kind = "ref"
    /\ save[c].outcome.ref.id = r.id
    /\ r.url = save[c].data.url
    /\ r.created_at < save[c].currentTime
    /\ Day(r.created_at) = Day(save[c].currentTime)
    /\ CarriesCall(r, save[c])
    /\ Cardinality(RowsOf(rows, r.url, Day(r.created_at))) = 1

\* C5: the table never holds two rows with the same url and the same
\* creation day.
C5_OneRowPerUrlDay ==
  \A r1, r2 \in rows :
    (r1.url = r2.url /\ Day(r1.created_at) = Day(r2.created_at)) => r1 = r2

C5_Witness ==
  \E c1, c2 \in Callers :
    /\ c1 # c2
    /\ save[c1].pc = "done"
    /\ save[c1].outcome.kind = "ref"
    /\ save[c1].outcome.error = ""
    /\ save[c2].pc = "done"
    /\ save[c2].outcome.kind = "ref"
    /\ save[c2].outcome.error = "23505"
    /\ save[c1].data.url = save[c2].data.url
    /\ save[c1].currentTime # save[c2].currentTime
    /\ Day(save[c1].currentTime) = Day(save[c2].currentTime)
    /\ Cardinality(RowsOf(rows, save[c1].data.url, Day(save[c1].currentTime))) = 1

\* C6: a save of a url stored on an earlier day only, with the store
\* working, inserts a second row with an id of its own; no step of a save
\* changes a row of its url created on an earlier day.
C6_OtherDayNewRow ==
  [][\A c \in Callers :
       LET s == save[c]
           d == Day(s.currentTime)
           earlier == {r \in rows : r.url = s.data.url /\ Day(r.created_at) < d}
       IN  (save'[c] # s /\ s.pc \in {"insert", "update"})
           => /\ earlier \subseteq rows'
              /\ (/\ s.pc = "insert"
                  /\ dbUp
                  /\ save'[c].outcome.error \notin InsertErrorCodes
                  /\ earlier # {}
                  /\ RowsOf(rows, s.data.url, d) = {})
                 => /\ save'[c].outcome.kind = "ref"
                    /\ \E n \in rows' \ rows :
                         /\ rows' = rows \cup {n}
                         /\ n.id = save'[c].outcome.ref.id
                         /\ n.url = s.data.url
                         /\ Day(n.created_at) = d
                         /\ \A r \in rows : r.id # n.id]_vars

C6_Witness ==
  \E r1, r2 \in rows : \E c \in Callers :
    /\ r1.url = r2.url
    /\ Day(r1.created_at) < Day(r2.created_at)
    /\ r1.id # r2.id
    /\ Day(r1.analyzed_at) = Day(r1.created_at)
    /\ save[c].pc = "done"
    /\ save[c].outcome.kind = "ref"
    /\ save[c].outcome.ref.id = r2.id

\* C7: the generator is called only after the crawl returned content; when
\* the crawl fails the request ends in an error response, the generator is
\* not called, and no step of a request changes the table.
C7_NoGeneratorAfterFailedCrawl ==
  /\ [](\A r \in Reqs :
          LET q == req[r]
          IN  /\ (q.generatorCalls > 0 \/ q.modelCalls > 0)
                   => (q.crawl.ok /\ Len(q.crawl.content) > 0)
              /\ (q.pc = "done" /\ q.fetcherCalls > 0 /\ ~q.crawl.ok)
                   => /\ q.response.status \in {400, 429, 500, 504}
                      /\ ~q.response.success
                      /\ q.generatorCalls = 0
                      /\ q.modelCalls = 0)
  /\ [][(req' # req) => (rows' = rows /\ nextId' = nextId)]_vars

C7_Witness ==
  \E r \in Reqs :
    /\ req[r].pc = "done"
    /\ req[r].crawl.message =
         <<"Invalid Firecrawl API key. Please check your FIRECRAWL_API_KEY environment variable.">>
    /\ StatusOf(r) = 500
    /\ req[r].generatorCalls = 0
    /\ rows = {}

\* C8: once analyzeWebsiteGrowth has returned a result, the request is
\* answered 200 with that result, whether or not the store is reachable.
C8_SucceedsWhateverTheStore ==
  \A r \in Reqs :
    req[r].gen.ok =>
      /\ req[r].pc = "done"
      /\ StatusOf(r) = 200
      /\ req[r].response.success
      /\ req[r].response.analysis.score = req[r].gen.result.score
      /\ req[r].response.analysis.categories = req[r].gen.result.categories
      /\ req[r].response.analysis.recommendations = req[r].gen.result.recommendations

C8_Witness ==
  \E r \in Reqs :
    /\ req[r].gen.ok
    /\ StatusOf(r) = 200
    /\ ~dbUp
    /\ req[r].responses = 1

StoreFailures ==
  {"ECONNREFUSED", "TypeError"} \cup InsertErrorCodes

\* C9: saveWebsiteSubmission never throws and returns null whenever the
\* store failed; getLeadStats never throws and returns the empty result
\* whenever its query failed.
C9_StoreNeverRaises ==
  /\ \A c \in Callers :
       /\ save[c].outcome.kind # "threw"
       /\ (save[c].pc = "done" /\ save[c].outcome.error \in StoreFailures)
            => save[c].outcome = SaveNull(save[c].outcome.error)
  /\ stats.kind # "threw"
  /\ stats.error # "" =>
       /\ stats.kind = "returned"
       /\ ~stats.overview.defined
       /\ stats.recentSubmissions = << >>

C9_Witness ==
  \E c1, c2 \in Callers :
    /\ save[c1].pc = "done"
    /\ save[c1].outcome = SaveNull("57P01")
    /\ save[c2].pc = "done"
    /\ save[c2].outcome = SaveNull("ECONNREFUSED")
    /\ stats.error = "ECONNREFUSED"

\* C10: a request answered 200 has had its analysis saved first: with the
\* store reachable, a row for (url, today) exists when the response is sent.
C10_SavedBeforeResponse ==
  [][\A r \in Reqs :
       (req[r].pc # "done" /\ req'[r].pc = "done"
          /\ req'[r].response.status = 200 /\ dbUp)
       => \E row \in rows' :
            /\ row.url = req'[r].url.text
            /\ Day(row.created_at) = Day(now)]_vars

\* C11: whatever text cleanContent is given, its result holds no control
\* character and is at most 50,000 characters long.
C11_NoControlAndBounded ==
  probe.fn = "cleanContent" =>
    /\ \A i \in 1..Len(probe.output) : probe.output[i] \notin ControlChar
    /\ Len(probe.output) <= MaxContentLength

C11_Witness ==
  /\ probe.fn = "cleanContent"
  /\ Len(probe.input) > MaxContentLength
  /\ \E i \in 1..Len(probe.input) : probe.input[i] \in ControlChar
  /\ Len(probe.output) = MaxContentLength

\* C12: whatever text cleanContent is given, its result holds no two
\* consecutive spaces.
C12_NoDoubleSpace ==
  probe.fn = "cleanContent" =>
    \A i \in 1..(Len(probe.output) - 1) :
      ~(probe.output[i] = " " /\ probe.output[i + 1] = " ")

\* the host with a "www." at its very start removed
LeadingWwwRemoved(host) ==
  IF HasAt(host, 0, Www) THEN From(host, Len(Www)) ELSE host

\* C13: for a url that parses, extractDomain returns the host with only a
\* leading "www." removed.
C13_LeadingWwwOnly ==
  (probe.fn = "extractDomain" /\ UrlParses(probe.input)) =>
    probe.output = LeadingWwwRemoved(Hostname(probe.input))

InsufficientContent ==
  <<"Insufficient content extracted from website. The page might be empty or have access restrictions.">>

\* C20: given a well-formed answer of the crawling service, crawlWebsite
\* fails with the insufficient-content error exactly when the cleaned
\* content is shorter than 100 characters; what it returns is between 100
\* and 50,000 characters long and its contentLength is that length.
C20_InsufficientExactly ==
  probe.fn = "crawlWebsite" =>
    LET r == probe.input
        o == probe.output
        wellFormed == r.kind = "ok" /\ r.success /\ r.hasData
    IN  /\ wellFormed =>
             ((~o.ok /\ o.message = InsufficientContent)
                <=> Len(extractContent(r.data)) < MinContentLength)
        /\ o.message = InsufficientContent => wellFormed
        /\ o.ok => /\ wellFormed
                   /\ o.content = extractContent(r.data)
                   /\ Len(o.content) >= MinContentLength
                   /\ Len(o.content) <= MaxContentLength
                   /\ o.contentLength = Len(o.content)

C20_Witness ==
  /\ probe.fn = "crawlWebsite"
  /\ probe.output.ok
  /\ Len(probe.output.content) = MinContentLength
  /\ probe.output.contentLength = MinContentLength

\* C14: a request whose crawl ends in the insufficient-content error is
\* answered 400.
C14_NoContentIs400 ==
  \A r \in Reqs :
    (req[r].pc = "done" /\ req[r].crawl.message = InsufficientContent)
      => StatusOf(r) = 400

RateLimitError ==
  "429 rate_limit_error: Number of request tokens has exceeded your rate limit"

\* C15: a request whose crawl was answered 429, or whose model call failed
\* with a rate-limit error, is answered 429.
C15_UpstreamRateLimitIs429 ==
  \A r \in Reqs :
    LET q == req[r]
    IN  /\ q.scrapeStatus = 429 =>
             (q.pc = "done" /\ q.response.status = 429 /\ ~q.response.success)
        /\ (q.outcome.kind = "error" /\ q.outcome.error = RateLimitError) =>
             (q.pc = "done" /\ q.response.status = 429 /\ ~q.response.success)

C15_Witness ==
  \E r \in Reqs :
    /\ req[r].outcome.kind = "error"
    /\ req[r].outcome.error = RateLimitError
    /\ req[r].scrapeStatus = 200
    /\ StatusOf(r) = 429

\* the error texts that can reach the catch block of the route
ThrownMessages ==
  {crawlWebsite(resp).message : resp \in {x \in CrawlResponses : ~crawlWebsite(x).ok}}
  \cup {analyzeWebsiteGrowth(o).message : o \in {x \in ModelOutcomes : x.kind = "error"}}
  \cup {analyzeNotConfigured.message}

\* the request ended in the catch block, with the error text msg
CaughtWith(q, msg) ==
  /\ q.pc = "done"
  /\ \/ q.fetcherCalls > 0 /\ ~q.crawl.ok /\ q.generatorCalls = 0 /\ msg = q.crawl.message
     \/ q.generatorCalls > 0 /\ ~q.gen.ok /\ msg = q.gen.message

\* the two texts hold the same ones of the substrings the catch block tests
SameMarks(m1, m2) ==
  \A mark \in {"rate limit", "API key", "timeout"} :
    Includes(m1, mark) <=> Includes(m2, mark)

FailureHasMessage(q) ==
  (q.pc = "done" /\ q.response.status >= 400) =>
    /\ q.response.message # ""
    /\ q.response.error # ""
    /\ q.response.details # << >> => nodeEnv = "development"

C19_CallFailureIsRaised ==
  \A r \in Reqs :
    LET q == req[r]
    IN  /\ q.outcome.kind = "error" =>
             /\ ~q.gen.ok
             /\ q.gen.result # FallbackResult
             /\ q.pc = "done" /\ q.response.status >= 400 /\ ~q.response.success
        /\ (q.generatorCalls > 0 /\ q.modelCalls = 0) =>
             /\ ~q.gen.ok
             /\ q.pc = "done" /\ q.response.status = 500 /\ ~q.response.success
        /\ (q.gen.ok /\ q.gen.result = FallbackResult) =>
             (q.outcome.kind = "reply" /\ q.modelCalls = 1)

C19_Witness ==
  \E r \in Reqs :
    /\ req[r].outcome.kind = "error"
    /\ req[r].outcome.error = "529 overloaded_error: Overloaded"
    /\ ~req[r].gen.ok
    /\ StatusOf(r) = 500

\* the request carries the shared secret, as its token parameter or, with no
\* token parameter, as its authorization header
CarriesSecret(a, secret) ==
  \/ a.query = secret
  \/ a.query = << >> /\ a.header \in {secret, <<"Bearer ">> \o secret}

\* C16: an admin request without the shared secret is answered 401 and
\* makes no call to the store; only a request carrying it reaches a handler.
C16_AdminNeedsSecret ==
  LET secret == IF adminTokenEnv = << >> THEN DefaultAdminToken ELSE adminTokenEnv
  IN  /\ (adm.pc # "idle" /\ ~CarriesSecret(adm, secret)) =>
           /\ adm.pc = "done"
           /\ adm.status = 401
           /\ adm.storeCalls = 0
           /\ stats.kind = "none"
      /\ (adm.pc # "idle" /\ CarriesSecret(adm, secret)) =>
           /\ adm.status # 401
           /\ adm.pc = "done" => adm.storeCalls = 1
      /\ stats.kind # "none" => (adm.pc = "handler" /\ CarriesSecret(adm, secret))

C16_Witness ==
  /\ adminTokenEnv = <<"s3cret">>
  /\ adm.pc = "done"
  /\ adm.route = "leads"
  /\ adm.query = DefaultAdminToken
  /\ adm.header = <<"Bearer ", "s3cret">>
  /\ adm.status = 401
  /\ adm.storeCalls = 0

RECURSIVE PassedBetween(_, _, _)
\* the requests of a client the limiter passed on at the times a..b
PassedBetween(f, a, b) ==
  IF a > b THEN 0
  ELSE (IF a \in DOMAIN f THEN f[a] ELSE 0) + PassedBetween(f, a + 1, b)

\* the last request was answered by the limiter and reached no handler
RejectedUntouched ==
  \A r \in Reqs :
    /\ (lim.requests > 0 /\ ~lim.lastPassed) =>
         /\ req[r].pc = "done"
         /\ req[r].response = LimiterResponse
         /\ req[r].fetcherCalls = 0
         /\ req[r].generatorCalls = 0
         /\ req[r].modelCalls = 0
    /\ (lim.requests > 0 /\ lim.lastPassed) => req[r].response.status # 429

C21_ViolationEndsInUpdate ==
  [][\A c \in Callers :
       LET s == save[c]
       IN  (s.pc = "update" /\ save'[c].pc = "done" /\ dbUp)
           => /\ save'[c].outcome.kind = "ref"
              /\ \E r \in RowsOf(rows', s.data.url, Day(s.currentTime)) :
                   /\ save'[c].outcome.ref.id = r.id
                   /\ CarriesCall(r, s)]_vars

\* C22: with saves of one url interleaved within one day against a working
\* store, every statement of a save that ends the call returns a reference,
\* and leaves one row for (url, day) whose analysis fields are all those of
\* the call that made this write; rows change only by a statement of a save.
C22_LatestWriteWins ==
  [][/\ \A c \in Callers :
          LET s == save[c]
              d == Day(s.currentTime)
          IN  (/\ s.pc \in {"insert", "update"}
               /\ save'[c].pc = "done"
               /\ dbUp
               /\ Day(now) = d
               /\ save'[c].outcome.error \notin InsertErrorCodes)
              => /\ save'[c].outcome.kind = "ref"
                 /\ Cardinality(RowsOf(rows', s.data.url, d)) = 1
                 /\ \A r \in RowsOf(rows', s.data.url, d) :
                      /\ CarriesCall(r, s)
                      /\ save'[c].outcome.ref.id = r.id
     /\ rows' # rows =>
          \E c \in Callers : save[c].pc \in {"insert", "update"} /\ save'[c].pc = "done"]_vars

\* the call that began first lost the INSERT to the call that began after
\* it, and wrote last: the row holds the first call's fields
C22_Witness ==
  \E c1, c2 \in Callers : \E r \in rows :
    /\ save[c1].pc = "done"
    /\ save[c2].pc = "done"
    /\ save[c1].data.url = save[c2].data.url
    /\ save[c1].data.analysis # save[c2].data.analysis
    /\ save[c1].currentTime < save[c2].currentTime
    /\ Day(save[c1].currentTime) = Day(save[c2].currentTime)
    /\ save[c2].outcome.kind = "ref"
    /\ save[c2].outcome.error = ""
    /\ save[c1].outcome.kind = "ref"
    /\ save[c1].outcome.error = "23505"
    /\ save[c1].outcome.ref.id = r.id
    /\ save[c2].outcome.ref.id = r.id
    /\ r.created_at = save[c2].currentTime
    /\ CarriesCall(r, save[c1])

\* the three required members are present in the object o
RequiredPresent(o) ==
  /\ o.score.t # "absent"
  /\ o.categories.t # "absent"
  /\ o.recommendations.t # "absent"

\* C23: a reply that is one JSON object (no member null) is accepted, its
\* parsed result returned, exactly when score, categories and
\* recommendations are all present, a score of 0 and empty lists included;
\* otherwise the fallback result is returned.
C23_AcceptedIffPresent ==
  \A r \in Reqs :
    LET q == req[r]
    IN  (/\ q.pc = "done"
         /\ q.outcome.kind = "reply"
         /\ Len(q.outcome.reply) = 1
         /\ q.outcome.reply[1].k = "object"
         /\ q.outcome.reply[1].obj.score.t # "null")
        => /\ q.gen.ok
           /\ (q.gen.result # FallbackResult) <=> RequiredPresent(q.outcome.reply[1].obj)

\* C24: for a reply made of text without braces, then a valid result
\* object, then any text, braces included, the result returned is that of
\* the object.
C24_FirstObjectParsed ==
  \A r \in Reqs :
    LET q == req[r]
        reply == q.outcome.reply
    IN  (q.pc = "done" /\ q.outcome.kind = "reply")
        => \A i \in 1..Len(reply) :
             (/\ reply[i].k = "object"
              /\ HasRequiredFields(reply[i].obj)
              /\ \A j \in 1..(i - 1) :
                   reply[j].k \in {"text", "space", "fence_json", "fence"}
              /\ \A j \in (i + 1)..Len(reply) :
                   reply[j].k \in {"text", "space", "fence_json", "fence", "lbrace", "rbrace"})
             => /\ q.gen.ok
                /\ q.gen.result.score = ClampScore(reply[i].obj.score)
                /\ q.gen.result.categories = reply[i].obj.categories
                /\ q.gen.result.recommendations = reply[i].obj.recommendations

\* C25: extractContent returns cleanContent of the markdown field when it
\* is not empty; else of the content field, else of the text field, when
\* not empty; else of the html field with its tags replaced by spaces and
\* its whitespace collapsed; else the empty text.
C25_PreferenceOrder ==
  probe.fn = "extractContent" =>
    LET d == probe.input
    IN  /\ d.markdown # << >> => probe.output = cleanContent(d.markdown)
        /\ (d.markdown = << >> /\ d.content # << >>)
             => probe.output = cleanContent(d.content)
        /\ (d.markdown = << >> /\ d.content = << >> /\ d.text # << >>)
             => probe.output = cleanContent(d.text)
        /\ (d.markdown = << >> /\ d.content = << >> /\ d.text = << >>)
             => probe.output = cleanContent(Trim(CollapseWhitespace(StripTags(d.html))))

C25_Witness ==
  /\ probe.fn = "extractContent"
  /\ probe.input.markdown = << >>
  /\ probe.input.content = << >>
  /\ probe.input.text = <<"t">>
  /\ probe.input.html # << >>
  /\ probe.output = <<"t">>

\* C26: a request has sent at most one response, and has sent one exactly
\* when the handler has ended; a request that was received ends, with its
\* one response a success (200) or a failure (an error status).
C26_ExactlyOneResponse ==
  /\ [](\A r \in Reqs :
          /\ req[r].responses <= 1
          /\ (req[r].responses = 1) <=> (req[r].pc = "done")
          /\ req[r].pc = "done" =>
               (req[r].response.success <=> req[r].response.status = 200))
  /\ \A r \in Reqs :
       (req[r].pc \in {"crawling", "analyzing"})
         ~> (req[r].pc = "done" /\ req[r].responses = 1 /\ req[r].response.status # 0)

C26_Witness ==
  \E r \in Reqs :
    /\ req[r].pc = "done"
    /\ req[r].responses = 1
    /\ req[r].fetcherCalls = 1
    /\ req[r].modelCalls = 1
    /\ req[r].response.success
    /\ req[r].response.status = 200

\* C27: a request calls the crawling service at most once and the model at
\* most once, and a failed call ends the request: it is answered with no
\* further call.
C27_NoRetry ==
  \A r \in Reqs :
    LET q == req[r]
    IN  /\ q.fetcherCalls <= 1
        /\ q.generatorCalls <= 1
        /\ q.modelCalls <= 1
        /\ (q.fetcherCalls = 1 /\ q.pc # "crawling" /\ ~q.crawl.ok)
             => (q.pc = "done" /\ q.modelCalls = 0 /\ ~q.response.success)
        /\ q.outcome.kind = "error"
             => (q.pc = "done" /\ ~q.gen.ok /\ ~q.response.success)

C27_Witness ==
  \E r \in Reqs :
    /\ req[r].pc = "done"
    /\ req[r].fetcherCalls = 1
    /\ req[r].modelCalls = 1
    /\ req[r].outcome.kind = "error"
    /\ req[r].outcome.error = "529 overloaded_error: Overloaded"
    /\ req[r].responses = 1
    /\ StatusOf(r) = 500

\* C28: every stored row stays stored with its id, url, domain and
\* created_at, whatever step is taken; the number of rows never decreases;
\* no two rows share an id.
C28_RowsKeepIdentity ==
  /\ [](\A r1, r2 \in rows : r1.id = r2.id => r1 = r2)
  /\ [][/\ \A r \in rows :
             \E n \in rows' :
               /\ n.id = r.id
               /\ n.url = r.url
               /\ n.domain = r.domain
               /\ n.created_at = r.created_at
        /\ Cardinality(rows') >= Cardinality(rows)]_vars

\* a row re-saved at a later tick of its day
C28_Witness ==
  \E r \in rows : \E c \in Callers :
    /\ save[c].pc = "done"
    /\ save[c].outcome = SaveReturned(Returning(r), "23505")
    /\ r.analyzed_at = save[c].currentTime
    /\ r.analyzed_at > r.created_at
    /\ r.domain = extractDomain(r.url)
    /\ saves = MaxSaves

\* the kind of Fetcher error an answer of the crawling service stands for:
\* status 0 is a fetch that was rejected
FetchKindOf(status) ==
  CASE status = 0 -> "NetworkUnreachable"
    [] status = 401 -> "AuthFailure"
    [] status = 429 -> "RateLimited"
    [] status = 400 -> "BadRequest"
    [] OTHER -> "UpstreamError"

\* the kind of the error crawlWebsite threw, read from its message
FetchKindSeen(msg) ==
  CASE msg[1] = "Invalid Firecrawl API key. Please check your FIRECRAWL_API_KEY environment variable."
         -> "AuthFailure"
    [] msg[1] = "Firecrawl rate limit exceeded. Please try again later."
         -> "RateLimited"
    [] msg[1] = "Invalid URL or crawl request: "
         -> "BadRequest"
    [] msg[1] = "Unable to connect to Firecrawl service. Please check your internet connection."
         -> "NetworkUnreachable"
    [] msg[1] = "Insufficient content extracted from website. The page might be empty or have access restrictions."
         -> "InsufficientContent"
    [] OTHER -> "UpstreamError"

\* the kind of Generator error a failure of the model call stands for
GenKindOf(error) ==
  CASE error = "429 rate_limit_error: Number of request tokens has exceeded your rate limit"
         -> "RateLimited"
    [] error = "401 authentication_error: invalid x-api-key"
         -> "AuthFailure"
    [] error = "529 overloaded_error: Overloaded"
         -> "Overloaded"
    [] OTHER -> "Unknown"

\* the kind of the error analyzeWebsiteGrowth threw, read from its message
GenKindSeen(msg) ==
  CASE msg[1] = "Claude API rate limit exceeded. Please try again in a few minutes."
         -> "RateLimited"
    [] msg[1] = "Invalid Anthropic API key. Please check your ANTHROPIC_API_KEY environment variable."
         -> "AuthFailure"
    [] msg[1] = "Claude AI service is temporarily overloaded. Please try again in a moment."
         -> "Overloaded"
    [] OTHER -> "Unknown"

\* C29: the error the route receives from crawlWebsite has the kind of the
\* crawling service's answer (its status, or the rejected fetch), and the
\* error it receives from analyzeWebsiteGrowth has the kind of the model
\* call's failure, whatever text the upstream error carries.
C29_KindUnchanged ==
  \A r \in Reqs :
    LET q == req[r]
    IN  /\ (q.fetcherCalls = 1 /\ q.pc # "crawling" /\ ~q.crawl.ok /\ q.scrapeStatus # 200)
             => FetchKindSeen(q.crawl.message) = FetchKindOf(q.scrapeStatus)
        /\ q.outcome.kind = "error"
             => GenKindSeen(q.gen.message) = GenKindOf(q.outcome.error)

\* C30: a request that ended on an error of the Fetcher or the Generator is
\* answered by the kind of that error: 500 for the auth and configuration
\* kinds, a 4xx status for the crawler's 400, and 500 for every other kind
\* but the rate limits.
C30_StatusByKind ==
  \A r \in Reqs :
    LET q == req[r]
        fetchFailed == q.pc = "done" /\ q.fetcherCalls = 1 /\ ~q.crawl.ok /\ q.scrapeStatus # 200
        genFailed == q.pc = "done" /\ q.generatorCalls = 1 /\ ~q.gen.ok
    IN  /\ (fetchFailed /\ FetchKindOf(q.scrapeStatus) = "AuthFailure")
             => q.response.status = 500
        /\ (genFailed /\ q.modelCalls = 0) => q.response.status = 500
        /\ (genFailed /\ q.modelCalls = 1 /\ GenKindOf(q.outcome.error) = "AuthFailure")
             => q.response.status = 500
        /\ (fetchFailed /\ FetchKindOf(q.scrapeStatus) = "BadRequest")
             => (q.response.status >= 400 /\ q.response.status <= 499)
        /\ (fetchFailed /\ FetchKindOf(q.scrapeStatus) \in {"UpstreamError", "NetworkUnreachable"})
             => q.response.status = 500
        /\ (genFailed /\ q.modelCalls = 1
              /\ GenKindOf(q.outcome.error) \in {"Overloaded", "Unknown"})
             => q.response.status = 500

====
